---- MODULE Spec2Model ----
(***************************************************************************)
(* Model of src/app.py: the TextNow SMS microservice.                      *)
(*                                                                         *)
(* One /send request is modelled step by step: normalize_number,           *)
(* get_client, _find_direct_send, _try_call (one step per call shape),     *)
(* _find_conversation_maker, the maker calls, _find_conversation_sender    *)
(* and the conversation send.  Every call made on a callable of the client *)
(* library is appended to the history variable `calls`.                    *)
(* GET /debug is one step; the clock `now` advances between requests in    *)
(* SpecTimed, where the cache _CLIENT/_CLIENT_TS is seen empty, fresh,     *)
(* exactly at its age limit and expired.                                   *)
(*                                                                         *)
(* The client library is opaque to app.py.  Its member names are fixed in  *)
(* `lib`; the signature and behaviour of a callable is drawn from a small  *)
(* set when app.py picks that callable.                                    *)
(***************************************************************************)
EXTENDS Integers, Sequences, FiniteSets, TLC

VARIABLES
    lib,         \* member names of the object Client(...) returns
    CLIENT,      \* app.py:14  _CLIENT
    CLIENT_TS,   \* app.py:15  _CLIENT_TS
    now,         \* time.time()
    pc,          \* position of the /send handler
    raw,         \* body.to of a request that normalize_number rejected
    to,          \* send_sms local `to`
    client,      \* send_sms local `client`
    name,        \* send_sms local `name`
    fn,          \* the callable _try_call works on (fn / send_fn)
    i,           \* position of _try_call in its repertoire
    maker_name,  \* send_sms local `maker_name`
    maker,       \* send_sms local `maker`
    mi,          \* position in the maker attempts (0 = positional)
    conv,        \* send_sms local `conv`
    send_name,   \* send_sms local `send_name`
    calls,       \* history: every call made on a library callable
    result,      \* the HTTP response of the request
    dbg          \* the /debug handler: its response, its local `client` and
                 \* what its get_client did

vars == <<lib, CLIENT, CLIENT_TS, now, pc, raw, to, client, name, fn, i,
          maker_name, maker, mi, conv, send_name, calls, result, dbg>>

-----------------------------------------------------------------------------
(* Bounds of the model *)

\* a client object has at most this many members
MaxMembers == 2

\* the clock advances at most this many times
MaxTicks == 3

-----------------------------------------------------------------------------
(* Strings.  A Python str is a sequence of one-character strings where the  *)
(* code looks inside it; member names are looked inside through CharsOf.    *)

CharsOf(n) ==
    IF n = "send_sms" THEN <<"s", "e", "n", "d", "_", "s", "m", "s">>
    ELSE IF n = "send_message" THEN <<"s", "e", "n", "d", "_", "m", "e", "s", "s", "a", "g", "e">>
    ELSE IF n = "send_text" THEN <<"s", "e", "n", "d", "_", "t", "e", "x", "t">>
    ELSE IF n = "text" THEN <<"t", "e", "x", "t">>
    ELSE IF n = "send" THEN <<"s", "e", "n", "d">>
    ELSE IF n = "sms" THEN <<"s", "m", "s">>
    ELSE IF n = "message" THEN <<"m", "e", "s", "s", "a", "g", "e">>
    ELSE IF n = "sendSMS" THEN <<"s", "e", "n", "d", "S", "M", "S">>
    ELSE IF n = "postSMS" THEN <<"p", "o", "s", "t", "S", "M", "S">>
    ELSE IF n = "ping" THEN <<"p", "i", "n", "g">>
    ELSE IF n = "create_conversation" THEN <<"c", "r", "e", "a", "t", "e", "_", "c", "o", "n", "v", "e", "r", "s", "a", "t", "i", "o", "n">>
    ELSE IF n = "conversation" THEN <<"c", "o", "n", "v", "e", "r", "s", "a", "t", "i", "o", "n">>
    ELSE IF n = "conversations" THEN <<"c", "o", "n", "v", "e", "r", "s", "a", "t", "i", "o", "n", "s">>
    ELSE IF n = "create" THEN <<"c", "r", "e", "a", "t", "e">>
    ELSE IF n = "reply" THEN <<"r", "e", "p", "l", "y">>
    ELSE IF n = "close" THEN <<"c", "l", "o", "s", "e">>
    ELSE IF n = "_send" THEN <<"_", "s", "e", "n", "d">>
    ELSE IF n = "messages" THEN <<"m", "e", "s", "s", "a", "g", "e", "s">>
    ELSE <<>>

\* str.lower() on the letters that occur in member names
LowerChar(c) ==
    IF c = "S" THEN "s" ELSE IF c = "M" THEN "m" ELSE IF c = "N" THEN "n"
    ELSE IF c = "T" THEN "t" ELSE c

Lower(s) == [k \in 1..Len(s) |-> LowerChar(s[k])]

\* `sub in s` on strings
Contains(s, sub) ==
    \E k \in 0..(Len(s) - Len(sub)) :
        \A j \in 1..Len(sub) : s[k + j] = sub[j]

StartsWith(s, c) == Len(s) >= 1 /\ s[1] = c

\* the hint substrings of the conversation-sender scan (app.py:177)
Hints == { <<"s","e","n","d">>, <<"t","e","x","t">>,
           <<"m","e","s","s","a","g","e">>, <<"s","m","s">> }

\* any(k in lname for k in ("send", "text", "message", "sms"))
HasHint(lname) == \E h \in Hints : Contains(lname, h)

\* the elements of sequence s
Range(s) == { s[k] : k \in 1..Len(s) }

\* index of the first element of sequence s that is in the set good, 0 if none
FirstIndex(s, good) ==
    IF \E k \in 1..Len(s) : s[k] \in good
    THEN CHOOSE k \in 1..Len(s) : s[k] \in good /\ \A j \in 1..(k - 1) : s[j] \notin good
    ELSE 0

-----------------------------------------------------------------------------
(* normalize_number *)

Digits == {"0","1","2","3","4","5","6","7","8","9"}
IsDigit(c) == c \in Digits
IsSpace(c) == c = " "

RECURSIVE LStrip(_)
LStrip(s) == IF s # <<>> /\ IsSpace(Head(s)) THEN LStrip(Tail(s)) ELSE s

RECURSIVE RStrip(_)
RStrip(s) ==
    IF s # <<>> /\ IsSpace(s[Len(s)]) THEN RStrip(SubSeq(s, 1, Len(s) - 1)) ELSE s

\* raw.strip()
Strip(s) == RStrip(LStrip(s))

\* variant of normalize_number: ten digits or more are taken for a US number
normalize_number_at_least_ten(r) ==
    LET stripped == Strip(r)
        digits   == SelectSeq(stripped, IsDigit)
    IN  IF Len(digits) >= 10
        THEN [ok |-> TRUE, value |-> <<"+", "1">> \o digits]
        ELSE IF StartsWith(stripped, "+") /\ Len(digits) >= 8
        THEN [ok |-> TRUE, value |-> stripped]
        ELSE [ok |-> FALSE, value |-> <<>>]

\* the result of normalize_number: [ok, value]; ok = FALSE is HTTPException(400)
normalize_number(r) ==
    LET stripped == Strip(r)
        digits   == SelectSeq(stripped, IsDigit)
    IN  IF Len(digits) = 10
        THEN [ok |-> TRUE, value |-> <<"+", "1">> \o digits]
        ELSE IF StartsWith(stripped, "+") /\ Len(digits) >= 8
        THEN [ok |-> TRUE, value |-> stripped]
        ELSE [ok |-> FALSE, value |-> <<>>]

\* body.to values of the requests
RawNumbers ==
    { <<"5","5","5","1","2","3","4","5","6","7">>,
      <<" ","+","1","5","5","5","1","2","3","4","5","6","7">>,
      <<"1","2","3","4","5">>,
      <<"1","5","5","5","1","2","3","4","5","6","7">>,
      <<"+","1","2","3","4","5","6","7">> }

\* body.message
Message == <<"h", "i">>

-----------------------------------------------------------------------------
(* Calls.  A call shape is the positional arguments and the keyword         *)
(* arguments of one call; an argument is named by the value it carries:     *)
(* "to" (the destination) or "msg" (the message).                           *)

Shape(pos, kw) == [pos |-> pos, kw |-> kw]

phone_keys == <<"to", "phone", "number", "recipient", "contact", "send_to">>
\* variant of msg_keys: the list stops after "text"
msg_keys_short == <<"message", "text">>
msg_keys   == <<"message", "text", "body", "content">>

\* app.py:111  fn(to, message)
ShapePos == Shape(<<"to", "msg">>, {})
\* app.py:116  fn(message, to)
ShapeSwapped == Shape(<<"msg", "to">>, {})
\* app.py:123  fn(**{p: to, m: message})
ShapeKw2(p, m) == Shape(<<>>, {<<p, "to">>, <<m, "msg">>})
\* app.py:129  fn(**{m: message})
ShapeKw1(m) == Shape(<<>>, {<<m, "msg">>})
\* variant of ShapeMsg: the conversation sender is first called like a direct
\* sender, with (to, message)
ShapeMsg_as_pair == Shape(<<"to", "msg">>, {})
\* app.py:255  send_fn(body.message)
ShapeMsg == Shape(<<"msg">>, {})
\* app.py:222  maker(to)
ShapeTo == Shape(<<"to">>, {})
\* app.py:229  maker(**{p: to})
ShapeKwTo(p) == Shape(<<>>, {<<p, "to">>})

NPhone == Len(phone_keys)
NMsg == Len(msg_keys)

\* number of calls _try_call makes when every call raises TypeError
NShapes == 2 + NPhone * NMsg + NMsg

\* variant of TryShape: the message-only loop passes the first message key
\* on every pass instead of the loop variable
TryShape_first_key(k) ==
    IF k = 1 THEN ShapePos
    ELSE IF k = 2 THEN ShapeSwapped
    ELSE IF k <= 2 + NPhone * NMsg
    THEN ShapeKw2(phone_keys[((k - 3) \div NMsg) + 1], msg_keys[((k - 3) % NMsg) + 1])
    ELSE ShapeKw1(msg_keys[1])

\* the k-th call of _try_call: 1) positional, 2) swapped, 3) the keyword
\* combinations, phone_keys outer loop and msg_keys inner loop, 4) message-only
TryShape(k) ==
    IF k = 1 THEN ShapePos
    ELSE IF k = 2 THEN ShapeSwapped
    ELSE IF k <= 2 + NPhone * NMsg
    THEN ShapeKw2(phone_keys[((k - 3) \div NMsg) + 1], msg_keys[((k - 3) % NMsg) + 1])
    ELSE ShapeKw1(msg_keys[k - 2 - NPhone * NMsg])

\* variant of maker_keys: one more keyword is attempted
maker_keys_longer == <<"to", "phone", "number", "contact", "recipient", "send_to">>

\* the keys of the maker's keyword attempts (app.py:227)
maker_keys == <<"to", "phone", "number", "contact", "recipient">>

\* the k-th call of the conversation maker: 0 is maker(to), then maker(p=to)
MakerShape(k) == IF k = 0 THEN ShapeTo ELSE ShapeKwTo(maker_keys[k])

(* A callable of the library: its formal parameters and what its body does. *)
(*   pos    : the positional-or-keyword parameters, all required            *)
(*   kwonly : the keyword-only parameters, all required                     *)
(*   body   : "ret" returns, "err" raises an error that is not a TypeError  *)
(*            ("quota exceeded"), "terr" raises a TypeError from inside,    *)
(*            "none" returns None (a maker), "conv" returns a conversation  *)
Callable(path, pos, kwonly, body) ==
    [path |-> path, pos |-> pos, kwonly |-> kwonly, body |-> body]

NoFn == Callable(<<>>, <<>>, {}, "absent")

KwKeys(shape) == { kv[1] : kv \in shape.kw }

\* Python's argument binding: TRUE iff the call does not raise the TypeError
\* of a call that does not match the signature
Binds(f, shape) ==
    LET npos == Len(shape.pos)
        keys == KwKeys(shape)
        free == { f.pos[k] : k \in (npos + 1)..Len(f.pos) }
    IN  /\ npos <= Len(f.pos)
        /\ keys \subseteq (free \cup f.kwonly)
        /\ (free \cup f.kwonly) \subseteq keys

\* exceptions
Exc(type, msg) == [type |-> type, msg |-> msg]
NoExc == Exc("none", "")

\* One call of a library callable.  entered: the arguments were bound and the
\* body ran.  exc: what the call raised (NoExc if it returned).
Invoke(f, shape) ==
    IF ~Binds(f, shape)
    THEN [entered |-> FALSE, exc |-> Exc("TypeError", "unexpected arguments")]
    ELSE IF f.body = "err"
    THEN [entered |-> TRUE, exc |-> Exc("Exception", "quota exceeded")]
    ELSE IF f.body = "terr"
    THEN [entered |-> TRUE, exc |-> Exc("TypeError", "unsupported operand")]
    ELSE [entered |-> TRUE, exc |-> NoExc]

\* variant of CaughtTypeError: `except Exception`
CaughtAnyException(exc) == exc.type # "none"

\* `except TypeError` (app.py:112, 117, 124, 130, 223, 231, 256)
CaughtTypeError(exc) == exc.type = "TypeError"

\* the record `calls` keeps of one call
CallRec(f, shape, r) ==
    [fn |-> f.path, shape |-> shape, entered |-> r.entered, exc |-> r.exc]

\* signatures and behaviours a sender of the library may have
SenderKinds ==
    { <<pk[1], pk[2], "ret">> :
        pk \in { << <<"to", "message">>, {} >>,
                 << <<"text">>, {} >>,
                 << <<>>, {} >>,
                 << <<>>, {"phone", "body"} >>,
                 << <<>>, {"message"} >>, << <<>>, {"text"} >>,
                 << <<>>, {"body"} >>, << <<>>, {"content"} >> } }
    \cup
    { <<pk[1], pk[2], b>> :
        pk \in { << <<"to", "message">>, {} >>, << <<"text">>, {} >> },
        b \in {"err", "terr"} }

\* signatures and behaviours a conversation maker of the library may have
MakerKinds ==
    { << <<"number">>, {}, "conv">>,
      << <<>>, {"number"}, "conv">>,
      << <<"number">>, {}, "none">>,
      << <<"number">>, {}, "err">>,
      << <<"number">>, {}, "terr">>,
      << <<>>, {"recipient"}, "conv">>,
      << <<>>, {}, "conv">> }

-----------------------------------------------------------------------------
(* The client object.  A member is a callable, a plain attribute, or a      *)
(* sub-object with callables of its own.  A member name and a dotted path   *)
(* are sequences of segments: "conversations.create" is                     *)
(* <<"conversations", "create">>.                                           *)

Member(n, callable, members) == [name |-> n, callable |-> callable, members |-> members]

\* variant of DirectNames: "send" is looked for before "text"
DirectNames_send_first ==
    <<"send_sms", "send_message", "send_text", "send", "text", "sms", "message">>

\* variant of DirectNames: the generic names come before the compound ones
DirectNames_generic_first ==
    <<"send", "sms", "message", "text", "send_sms", "send_message", "send_text">>

\* the names _find_direct_send looks for, in its order (app.py:137)
DirectNames ==
    <<"send_sms", "send_message", "send_text", "text", "send", "sms", "message">>

\* the names _find_conversation_maker looks for, in its order (app.py:145-154)
MakerNames ==
    <<"create_conversation", "get_conversation", "get_or_create_conversation",
      "open_conversation", "conversation_with", "start_conversation",
      "ensure_conversation", "conversation">>

\* the members a client object of the model may have
MemberUniverse ==
    { Member(DirectNames[k], TRUE, {}) : k \in 1..Len(DirectNames) }
    \cup { Member("sendSMS", TRUE, {}), Member("ping", TRUE, {}),
           Member("create_conversation", TRUE, {}), Member("conversation", TRUE, {}),
           Member("send_sms", FALSE, {}),
           Member("conversations", FALSE, {"create"}),
           Member("conversations", FALSE, {"create_conversation"}) }

\* the client objects of the model: at most MaxMembers members, names distinct
Libs ==
    { c \in SUBSET MemberUniverse :
        /\ Cardinality(c) <= MaxMembers
        /\ \A a, b \in c : a.name = b.name => a = b }

\* hasattr(obj, n)
HasAttr(obj, n) == \E m \in obj : m.name = n
\* getattr(obj, n)
GetAttr(obj, n) == CHOOSE m \in obj : m.name = n
\* variant of HasCallable: the callable() test is left out
HasCallable_no_callable_test(obj, n) == HasAttr(obj, n)

\* hasattr(obj, n) and callable(getattr(obj, n))
HasCallable(obj, n) == HasAttr(obj, n) /\ GetAttr(obj, n).callable

NoName == <<>>
Found(n, path) == [name |-> n, fn |-> path]
NotFound == Found(NoName, <<>>)

\* _find_direct_send(client): (name, fn) of the first name that is a callable
\* member, (None, None) if there is none
FindDirectSend(c) ==
    LET k == FirstIndex(DirectNames, { n \in Range(DirectNames) : HasCallable(c, n) })
    IN  IF k = 0 THEN NotFound
        ELSE Found(<<DirectNames[k]>>, <<"client", DirectNames[k]>>)

\* the callables of a sub-object, as an object
SubObject(m) == { Member(n, TRUE, {}) : n \in m.members }

\* _find_conversation_maker(client)
FindConversationMaker(c) ==
    LET k == FirstIndex(MakerNames, { n \in Range(MakerNames) : HasCallable(c, n) })
    IN  IF k # 0 THEN Found(<<MakerNames[k]>>, <<"client", MakerNames[k]>>)
        ELSE IF HasAttr(c, "conversations")
        THEN LET convs == SubObject(GetAttr(c, "conversations"))
                 j == FirstIndex(MakerNames, { n \in Range(MakerNames) : HasCallable(convs, n) })
             IN  IF j # 0
                 THEN Found(<<"conversations", MakerNames[j]>>,
                            <<"client", "conversations", MakerNames[j]>>)
                 ELSE NotFound
        ELSE NotFound

(* A conversation object: its callables in the order inspect.getmembers     *)
(* lists them (sorted by name), and its sub-objects.                        *)
ConvObj(members, subs) == [none |-> FALSE, members |-> members, subs |-> subs]
\* conv = None
NoConv == [none |-> TRUE, members |-> <<>>, subs |-> {}]
Sub(n, members) == [name |-> n, members |-> members]

\* what a conversation maker of the model may return
ConvObjs ==
    { ConvObj(<<"send">>, {}),
      ConvObj(<<"close", "reply">>, {}),
      ConvObj(<<"_send", "close", "postSMS">>, {}),
      ConvObj(<<"close">>, {Sub("messages", <<"send">>)}),
      ConvObj(<<"close">>, {}) }

\* the names _find_conversation_sender looks for first (app.py:169)
ConvSenderNames == <<"send", "send_message", "send_text", "text", "message", "reply">>

InSeq(s, x) == \E k \in 1..Len(s) : s[k] = x

\* _find_conversation_sender(obj) on the callables `members` of obj: the name
\* found, NoName if none
FindConversationSender(members) ==
    LET k == FirstIndex(ConvSenderNames, Range(members))
        j == FirstIndex(members,
                 { n \in Range(members) : /\ ~StartsWith(Lower(CharsOf(n)), "_")
                                          /\ HasHint(Lower(CharsOf(n))) })
    IN  IF k # 0 THEN <<ConvSenderNames[k]>>
        ELSE IF j # 0 THEN <<members[j]>>
        ELSE NoName

\* the sub-objects send_sms looks into (app.py:241)
SubNames == <<"messages", "sms", "api", "driver">>

\* variant of FindSenderOnConversation: a sender found on a sub-object is
\* named without the sub-object (send_name = sname)
FindSenderOnConversation_bare_name(c) ==
    LET direct == FindConversationSender(c.members)
        with_sender == { s.name : s \in { x \in c.subs :
                                             FindConversationSender(x.members) # NoName } }
        k == FirstIndex(SubNames, with_sender)
    IN  IF direct # NoName THEN Found(direct, <<"conv">> \o direct)
        ELSE IF k # 0
        THEN LET s == CHOOSE s \in c.subs : s.name = SubNames[k]
                 sname == FindConversationSender(s.members)
             IN  Found(sname, <<"conv", SubNames[k]>> \o sname)
        ELSE NotFound

\* app.py:238-247: the sender of a conversation, on the object or on the first
\* sub-object that has one
FindSenderOnConversation(c) ==
    LET direct == FindConversationSender(c.members)
        with_sender == { s.name : s \in { x \in c.subs :
                                             FindConversationSender(x.members) # NoName } }
        k == FirstIndex(SubNames, with_sender)
    IN  IF direct # NoName THEN Found(direct, <<"conv">> \o direct)
        ELSE IF k # 0
        THEN LET s == CHOOSE s \in c.subs : s.name = SubNames[k]
                 sname == FindConversationSender(s.members)
             IN  Found(<<SubNames[k]>> \o sname, <<"conv", SubNames[k]>> \o sname)
        ELSE NotFound

-----------------------------------------------------------------------------
(* get_client *)

\* app.py:33  the cached client is reused while younger than this (seconds)
TTL == 1800

\* the step of the clock: half the age limit, so that a cached client is
\* seen younger than the limit, exactly at it and past it
TickLen == TTL \div 2

\* os.environ: which of TEXTNOW_EMAIL, TEXTNOW_PASSWORD, TEXTNOW_SID_COOKIE are set
Envs ==
    { [email |-> FALSE, password |-> FALSE, sid |-> FALSE],
      [email |-> TRUE,  password |-> FALSE, sid |-> FALSE],
      [email |-> TRUE,  password |-> TRUE,  sid |-> FALSE],
      [email |-> FALSE, password |-> FALSE, sid |-> TRUE] }

(* The variant of pythontextnow.Client that is installed:                   *)
(*   ctor  : Client(email, password) / Client("", sid_cookie=...) returns   *)
(*           ("ok"), raises TypeError ("TypeError") or another error ("err")*)
(*   noarg : Client() returns or raises                                     *)
(*   login : the client has one of the login methods the code looks for     *)
(*   login_out : that method returns or raises                              *)
ClientClasses ==
    [ctor : {"ok", "TypeError", "err"}, noarg : {"ok", "err"},
     login : BOOLEAN, login_out : {"ok", "err"}]

\* a client handle, named by the time it was constructed and authenticated
Handle(born) == [born |-> born]
\* _CLIENT = None
NoClient == Handle(0 - 1)

(* The outcome of one get_client call: what it raised (exc), what it       *)
(* returned (value), the cache afterwards (C, TS), and ops, what it called  *)
(* on the way: "Client" the constructor, "login" a login method of the new  *)
(* handle, "setattr" the assignment of sid_cookie on the new handle.        *)
GotClient(value, C, TS) ==
    [exc |-> NoExc, value |-> value, C |-> C, TS |-> TS, ops |-> {}]
Raised(exc, C, TS) ==
    [exc |-> exc, value |-> NoClient, C |-> C, TS |-> TS, ops |-> {}]
Did(ops, r) == [r EXCEPT !.ops = ops]

\* variant of Fresh: a client of exactly the age limit is still reused
Fresh_at_limit(C, TS, t) == C # NoClient /\ t - TS <= TTL

\* app.py:33  _CLIENT and (time.time() - _CLIENT_TS < 1800)
Fresh(C, TS, t) == C # NoClient /\ t - TS < TTL

\* variant of get_client: the fallback caches the client before its login
get_client_cache_before_login(e, cls, C, TS, t) ==
    IF ~((e.email /\ e.password) \/ e.sid)
    THEN Raised(Exc("RuntimeError", "credentials must be set"), C, TS)
    ELSE IF Fresh(C, TS, t)
    THEN GotClient(C, C, TS)
    ELSE IF cls.ctor = "ok"
    THEN Did({"Client"}, GotClient(Handle(t), Handle(t), t))
    ELSE IF cls.ctor = "err"
    THEN Did({"Client"}, Raised(Exc("Exception", "client constructor failed"), C, TS))
    ELSE IF cls.noarg = "err"
    THEN Did({"Client"}, Raised(Exc("Exception", "client constructor failed"), C, TS))
    ELSE IF e.sid
    THEN IF cls.login
         THEN IF cls.login_out = "err"
              THEN Did({"Client", "login"},
                       Raised(Exc("Exception", "login failed"), Handle(t), t))
              ELSE Did({"Client", "login"}, GotClient(Handle(t), Handle(t), t))
         ELSE Did({"Client", "setattr"}, GotClient(Handle(t), Handle(t), t))
    ELSE IF cls.login
         THEN IF cls.login_out = "err"
              THEN Did({"Client", "login"},
                       Raised(Exc("Exception", "login failed"), Handle(t), t))
              ELSE Did({"Client", "login"}, GotClient(Handle(t), Handle(t), t))
         ELSE Did({"Client"}, Raised(Exc("RuntimeError", "no login method"), Handle(t), t))

\* get_client() at time t with environment e, library variant cls and the
\* cache (C, TS): what it returns or raises, and the cache afterwards
get_client(e, cls, C, TS, t) ==
    IF ~((e.email /\ e.password) \/ e.sid)
    THEN Raised(Exc("RuntimeError", "credentials must be set"), C, TS)
    ELSE IF Fresh(C, TS, t)
    THEN GotClient(C, C, TS)
    ELSE IF cls.ctor = "ok"
    THEN Did({"Client"}, GotClient(Handle(t), Handle(t), t))
    ELSE IF cls.ctor = "err"
    THEN Did({"Client"}, Raised(Exc("Exception", "client constructor failed"), C, TS))
    ELSE IF cls.noarg = "err"
    THEN Did({"Client"}, Raised(Exc("Exception", "client constructor failed"), C, TS))
    ELSE IF e.sid
    THEN IF cls.login
         THEN IF cls.login_out = "err"
              THEN Did({"Client", "login"}, Raised(Exc("Exception", "login failed"), C, TS))
              ELSE Did({"Client", "login"}, GotClient(Handle(t), Handle(t), t))
         ELSE Did({"Client", "setattr"}, GotClient(Handle(t), Handle(t), t))
    ELSE IF cls.login
         THEN IF cls.login_out = "err"
              THEN Did({"Client", "login"}, Raised(Exc("Exception", "login failed"), C, TS))
              ELSE Did({"Client", "login"}, GotClient(Handle(t), Handle(t), t))
         ELSE Did({"Client"}, Raised(Exc("RuntimeError", "no login method"), C, TS))

-----------------------------------------------------------------------------
(* Responses *)

\* HTTPException(status_code, detail)
HttpError(status, detail) ==
    [status |-> status, detail |-> detail, tried |-> <<>>, used |-> <<>>, to |-> <<>>,
     message_len |-> 0]

\* app.py:270  HTTPException(502, f"Upstream TextNow error: {e}")
Upstream(exc) == HttpError(502, exc.msg)

\* app.py:209 and 260-265  {"ok": True, "used": ..., "to": ..., "message_len": ...}
Success(used, dest) ==
    [status |-> 200, detail |-> "ok", tried |-> <<>>, used |-> used, to |-> dest,
     message_len |-> Len(Message)]

NoResult == HttpError(0, "")

\* the texts of the errors send_sms and _try_call raise themselves
ErrInvalidNumber == "Invalid phone number format"
ErrNoConvention == "Could not call the discovered send method"
ErrNoCandidates == "No send method or conversation maker found"
ErrMakerUncallable == "Found maker but could not call it"
ErrNoConvSender == "Conversation obtained, but no send-ish method on it"

\* the state of the /debug handler.  status, detail and attrs are its
\* response; client is its local; before is the cached client it found and
\* ops is what its get_client call did
DebugState(status, detail, attrs, c, before, ops) ==
    [status |-> status, detail |-> detail, attrs |-> attrs, client |-> c,
     before |-> before, ops |-> ops]
NoDebug == DebugState(0, "", {}, NoClient, NoClient, {})

\* app.py:195  [n for n in dir(client) if not n.startswith("_")]
PublicAttrs(c) == { m.name : m \in { x \in c : ~StartsWith(CharsOf(x.name), "_") } }

\* app.py:209  f"client.{name}"
UsedDirect(n) == <<"client">> \o n
\* app.py:262  f"client.{maker_name}(...).{send_name}"
UsedConversation(mn, sn) == <<"client">> \o mn \o <<"(...)">> \o sn

-----------------------------------------------------------------------------
(* The /send handler *)

cache == <<CLIENT, CLIENT_TS>>
finder == <<name, maker_name, maker, mi, conv, send_name>>

Init ==
    /\ lib \in Libs
    /\ CLIENT = NoClient
    /\ CLIENT_TS = 0
    /\ now = 0
    /\ pc = "idle"
    /\ raw = <<>>
    /\ to = <<>>
    /\ client = NoClient
    /\ name = NoName
    /\ fn = NoFn
    /\ i = 0
    /\ maker_name = NoName
    /\ maker = NoFn
    /\ mi = 0
    /\ conv = NoConv
    /\ send_name = NoName
    /\ calls = <<>>
    /\ result = NoResult
    /\ dbg = NoDebug

\* the request ends with response r
Finish(r) ==
    /\ result' = r
    /\ pc' = "done"

\* app.py:201  to = normalize_number(body.to); a 400 leaves the handler at once
SendRequest(r) ==
    /\ pc = "idle"
    /\ LET n == normalize_number(r)
       IN  IF n.ok
           THEN /\ to' = n.value
                /\ pc' = "acquire"
                /\ UNCHANGED <<raw, result>>
           ELSE /\ raw' = r
                /\ Finish(HttpError(400, ErrInvalidNumber))
                /\ UNCHANGED to
    /\ UNCHANGED <<lib, dbg, cache, now, client, fn, i, finder, calls>>

\* app.py:203  client = get_client()
Acquire ==
    /\ pc = "acquire"
    /\ \E e \in Envs, cls \in ClientClasses :
         LET g == get_client(e, cls, CLIENT, CLIENT_TS, now)
         IN  /\ CLIENT' = g.C
             /\ CLIENT_TS' = g.TS
             /\ IF g.exc = NoExc
                THEN /\ client' = g.value
                     /\ pc' = "discover"
                     /\ UNCHANGED result
                ELSE /\ Finish(Upstream(g.exc))
                     /\ UNCHANGED client
    /\ UNCHANGED <<lib, dbg, now, raw, to, fn, i, finder, calls>>

\* app.py:206-214  pick the direct sender, or else the conversation maker
Discover ==
    /\ pc = "discover"
    /\ LET d == FindDirectSend(lib)
           m == FindConversationMaker(lib)
       IN  IF d.name # NoName
           THEN /\ name' = d.name
                /\ \E k \in SenderKinds : fn' = Callable(d.fn, k[1], k[2], k[3])
                /\ i' = 1
                /\ pc' = "try_call"
                /\ UNCHANGED <<maker_name, maker, result>>
           ELSE IF m.name # NoName
           THEN /\ maker_name' = m.name
                /\ \E k \in MakerKinds : maker' = Callable(m.fn, k[1], k[2], k[3])
                /\ pc' = "maker"
                /\ UNCHANGED <<name, fn, i, result>>
           ELSE /\ Finish(Upstream(Exc("RuntimeError", ErrNoCandidates)))
                /\ UNCHANGED <<name, fn, i, maker_name, maker>>
    /\ UNCHANGED <<lib, dbg, cache, now, raw, to, client, mi, conv, send_name, calls>>

\* the response of a request whose sender call returned (app.py:209, 260-265)
Sent ==
    IF send_name = NoName
    THEN Success(UsedDirect(name), to)
    ELSE Success(UsedConversation(maker_name, send_name), to)

\* one pass of _try_call's try blocks (app.py:109-132): call fn with the i-th
\* shape; a TypeError moves on to the next shape, or to the RuntimeError after
\* the last one; anything else leaves _try_call
TryCall ==
    /\ pc = "try_call"
    /\ LET r == Invoke(fn, TryShape(i))
       IN  /\ calls' = Append(calls, CallRec(fn, TryShape(i), r))
           /\ IF r.exc = NoExc
              THEN /\ Finish(Sent)
                   /\ UNCHANGED i
              ELSE IF CaughtTypeError(r.exc)
              THEN IF i < NShapes
                   THEN /\ i' = i + 1
                        /\ UNCHANGED <<pc, result>>
                   ELSE /\ Finish(Upstream(Exc("RuntimeError", ErrNoConvention)))
                        /\ UNCHANGED i
              ELSE /\ Finish(Upstream(r.exc))
                   /\ UNCHANGED i
    /\ UNCHANGED <<lib, dbg, cache, now, raw, to, client, fn, finder>>

\* app.py:237-250  with the conversation c in hand, find its sender
WithConversation(c) ==
    LET s == FindSenderOnConversation(c)
    IN  /\ conv' = c
        /\ IF s.name # NoName
           THEN /\ send_name' = s.name
                /\ \E k \in SenderKinds : fn' = Callable(s.fn, k[1], k[2], k[3])
                /\ pc' = "conv_send"
                /\ UNCHANGED result
           ELSE /\ Finish(Upstream(Exc("RuntimeError", ErrNoConvSender)))
                /\ UNCHANGED <<send_name, fn>>

\* app.py:224-225, 231-232  tried.append(f"{maker_name}(...) -> {e}") for each
\* TypeError of the maker, and tried[:3] as quoted in the error of app.py:235
Tried(cs) ==
    LET t == SelectSeq(cs, LAMBDA c : c.exc.type = "TypeError")
    IN  [k \in 1..(IF Len(t) < 3 THEN Len(t) ELSE 3) |-> t[k].exc.msg]

\* app.py:234-235  conv is None after the attempts (the maker's call is the
\* last of calls')
NoConversation ==
    /\ Finish([Upstream(Exc("RuntimeError", ErrMakerUncallable))
                  EXCEPT !.tried = Tried(calls')])
    /\ UNCHANGED <<conv, send_name, fn>>

\* variant of MakerCall: the keyword loop does not break when the maker
\* returns None, it goes on to the next key
MakerCall_no_break ==
    /\ pc = "maker"
    /\ LET r == Invoke(maker, MakerShape(mi))
       IN  /\ calls' = Append(calls, CallRec(maker, MakerShape(mi), r))
           /\ IF r.exc = NoExc
              THEN IF maker.body = "conv"
                   THEN /\ \E c \in ConvObjs : WithConversation(c)
                        /\ UNCHANGED mi
                   ELSE IF mi < Len(maker_keys)
                   THEN /\ mi' = mi + 1
                        /\ UNCHANGED <<pc, result, conv, send_name, fn>>
                   ELSE /\ NoConversation
                        /\ UNCHANGED mi
              ELSE IF CaughtTypeError(r.exc)
              THEN IF mi < Len(maker_keys)
                   THEN /\ mi' = mi + 1
                        /\ UNCHANGED <<pc, result, conv, send_name, fn>>
                   ELSE /\ NoConversation
                        /\ UNCHANGED mi
              ELSE /\ Finish(Upstream(r.exc))
                   /\ UNCHANGED <<mi, conv, send_name, fn>>
    /\ UNCHANGED <<lib, dbg, cache, now, raw, to, client, name, i, maker_name, maker>>

\* one call of the conversation maker (app.py:221-232): maker(to) first, then
\* maker(p=to) for each key while conv is None; the keyword loop breaks at the
\* first call that returns
MakerCall ==
    /\ pc = "maker"
    /\ LET r == Invoke(maker, MakerShape(mi))
       IN  /\ calls' = Append(calls, CallRec(maker, MakerShape(mi), r))
           /\ IF r.exc = NoExc
              THEN IF maker.body = "conv"
                   THEN /\ \E c \in ConvObjs : WithConversation(c)
                        /\ UNCHANGED mi
                   ELSE IF mi = 0
                   THEN /\ mi' = 1
                        /\ UNCHANGED <<pc, result, conv, send_name, fn>>
                   ELSE /\ NoConversation
                        /\ UNCHANGED mi
              ELSE IF CaughtTypeError(r.exc)
              THEN IF mi < Len(maker_keys)
                   THEN /\ mi' = mi + 1
                        /\ UNCHANGED <<pc, result, conv, send_name, fn>>
                   ELSE /\ NoConversation
                        /\ UNCHANGED mi
              ELSE /\ Finish(Upstream(r.exc))
                   /\ UNCHANGED <<mi, conv, send_name, fn>>
    /\ UNCHANGED <<lib, dbg, cache, now, raw, to, client, name, i, maker_name, maker>>

\* app.py:253-258  send_fn(body.message); a TypeError hands over to _try_call
ConvSend ==
    /\ pc = "conv_send"
    /\ LET r == Invoke(fn, ShapeMsg)
       IN  /\ calls' = Append(calls, CallRec(fn, ShapeMsg, r))
           /\ IF r.exc = NoExc
              THEN /\ Finish(Sent)
                   /\ UNCHANGED i
              ELSE IF CaughtTypeError(r.exc)
              THEN /\ i' = 1
                   /\ pc' = "try_call"
                   /\ UNCHANGED result
              ELSE /\ Finish(Upstream(r.exc))
                   /\ UNCHANGED i
    /\ UNCHANGED <<lib, dbg, cache, now, raw, to, client, fn, finder>>

\* the response is sent; the handler's locals are gone
Respond ==
    /\ pc = "done"
    /\ pc' = "idle"
    /\ raw' = <<>>
    /\ to' = <<>>
    /\ client' = NoClient
    /\ name' = NoName
    /\ fn' = NoFn
    /\ i' = 0
    /\ maker_name' = NoName
    /\ maker' = NoFn
    /\ mi' = 0
    /\ conv' = NoConv
    /\ send_name' = NoName
    /\ calls' = <<>>
    /\ result' = NoResult
    /\ UNCHANGED <<lib, dbg, cache, now>>

\* app.py:187-196  GET /debug: get_client, then the public attribute names
\* of the client; nothing of the client is called by debug itself
Debug ==
    /\ pc = "idle"
    /\ \E e \in Envs, cls \in ClientClasses :
         LET g == get_client(e, cls, CLIENT, CLIENT_TS, now)
         IN  /\ CLIENT' = g.C
             /\ CLIENT_TS' = g.TS
             /\ dbg' = IF g.exc = NoExc
                       THEN DebugState(200, "ok", PublicAttrs(lib), g.value, CLIENT, g.ops)
                       ELSE DebugState(500, g.exc.msg, {}, NoClient, CLIENT, g.ops)
    /\ pc' = "debug_done"
    /\ UNCHANGED <<lib, now, raw, to, client, fn, i, finder, calls, result>>

\* the response of /debug is sent
DebugRespond ==
    /\ pc = "debug_done"
    /\ pc' = "idle"
    /\ dbg' = NoDebug
    /\ UNCHANGED <<lib, cache, now, raw, to, client, fn, i, finder, calls, result>>

\* time.time() advances.  The clock is read by get_client alone, so time that
\* passes during a handler counts as time that passes before the next one
Tick ==
    /\ pc = "idle"
    /\ now < MaxTicks * TickLen
    /\ now' = now + TickLen
    /\ UNCHANGED <<lib, cache, pc, raw, to, client, fn, i, finder, calls, result, dbg>>

Next ==
    \/ \E r \in RawNumbers : SendRequest(r)
    \/ Acquire
    \/ Discover
    \/ TryCall
    \/ MakerCall
    \/ ConvSend
    \/ Respond

Spec == Init /\ [][Next]_vars

\* the service with its clock and both endpoints, on a few client objects
TimedLibs ==
    { { Member("send_sms", TRUE, {}), Member("_send", TRUE, {}) },
      { Member("create_conversation", TRUE, {}) } }

InitTimed ==
    /\ lib \in TimedLibs
    /\ CLIENT = NoClient
    /\ CLIENT_TS = 0
    /\ now = 0
    /\ pc = "idle"
    /\ raw = <<>>
    /\ to = <<>>
    /\ client = NoClient
    /\ name = NoName
    /\ fn = NoFn
    /\ i = 0
    /\ maker_name = NoName
    /\ maker = NoFn
    /\ mi = 0
    /\ conv = NoConv
    /\ send_name = NoName
    /\ calls = <<>>
    /\ result = NoResult
    /\ dbg = NoDebug

NextTimed ==
    \/ \E r \in RawNumbers : SendRequest(r)
    \/ Acquire
    \/ Discover
    \/ TryCall
    \/ MakerCall
    \/ ConvSend
    \/ Respond
    \/ Debug
    \/ DebugRespond
    \/ Tick

SpecTimed == InitTimed /\ [][NextTimed]_vars

-----------------------------------------------------------------------------
(* Views of the history used by the properties *)

\* the request got its client handle
Acquired == client # NoClient

\* c is a call on a sender (a callable of the client other than the maker)
IsSenderCall(c) == c.fn # maker.path

\* the calls made on senders, in order
SenderCalls == SelectSeq(calls, IsSenderCall)

\* the calls made on the conversation maker, in order
MakerCalls == SelectSeq(calls, LAMBDA c : ~IsSenderCall(c))

\* the calls _try_call made: in the conversation flow the first call on the
\* sender is send_sms's own send_fn(body.message)
TryCalls ==
    IF send_name = NoName \/ SenderCalls = <<>> THEN SenderCalls ELSE Tail(SenderCalls)

\* the call raised because the arguments did not match the signature
ShapeMismatch(c) == ~c.entered
\* the call returned
Returned(c) == c.exc = NoExc
\* the body of the callee ran and raised
BodyRaised(c) == c.entered /\ c.exc # NoExc

\* the repertoire as the specification states it
SpecPhoneKeys == <<"to", "phone", "number", "recipient", "contact", "send_to">>
SpecMsgKeys == <<"message", "text", "body", "content">>
SpecRepertoire ==
    << Shape(<<"to", "msg">>, {}), Shape(<<"msg", "to">>, {}) >>
    \o [k \in 1..24 |->
          Shape(<<>>, { <<SpecPhoneKeys[((k - 1) \div 4) + 1], "to">>,
                        <<SpecMsgKeys[((k - 1) % 4) + 1], "msg">> })]
    \o [k \in 1..4 |-> Shape(<<>>, { <<SpecMsgKeys[k], "msg">> })]

\* sequence s is a prefix of sequence t
IsPrefix(s, t) == Len(s) <= Len(t) /\ \A k \in 1..Len(s) : s[k] = t[k]

Shapes(s) == [k \in 1..Len(s) |-> s[k].shape]

-----------------------------------------------------------------------------
(* C1 *)

\* C1: the calls _try_call makes are a prefix of the fixed repertoire, the
\* sequence stops at the first call that does not raise a shape-mismatch, and
\* a call that returned ends the request with success.
\* Violated: a callee that is entered and raises TypeError from its body is
\* called again with the next shape.
C1_PrefixStopsAtFirstAccepted ==
    LET t == TryCalls
    IN  /\ IsPrefix(Shapes(t), SpecRepertoire)
        /\ \A k \in 1..(Len(t) - 1) : ShapeMismatch(t[k])
        /\ \A k \in 1..Len(t) : Returned(t[k]) => k = Len(t) /\ result.status = 200

\* the ordering half of C1 alone, which the code keeps
TryCallsFollowRepertoire == IsPrefix(Shapes(TryCalls), SpecRepertoire)

-----------------------------------------------------------------------------
(* C2 *)

\* C2: an error raised by the callee that is not an argument-shape rejection
\* ends _try_call with that error: it is the last call of the request and
\* the response carries that error.
\* Violated: a TypeError raised from inside the callee is taken for a
\* rejection and the next shape is called.
C2_NonShapeErrorPropagatesAtOnce ==
    LET t == TryCalls
    IN  \A k \in 1..Len(t) :
            BodyRaised(t[k]) =>
                /\ k = Len(t)
                /\ (pc = "done" => result = Upstream(t[k].exc))

-----------------------------------------------------------------------------
(* C3 *)

\* C3: the body of a sender is entered at most once per request: once a call
\* shape was accepted, no further shape is tried.
\* Violated: `except TypeError` also catches a TypeError raised by the body.
C3_BodyEnteredAtMostOnce ==
    Cardinality({ k \in 1..Len(calls) : IsSenderCall(calls[k]) /\ calls[k].entered }) <= 1

-----------------------------------------------------------------------------
(* C4 *)

\* n is a callable member of the client
IsMethod(n) == \E m \in lib : m.name = n /\ m.callable

\* the direct senders the client has
DirectCandidates ==
    { <<"client", DirectNames[k]>> : k \in { j \in 1..Len(DirectNames) : IsMethod(DirectNames[j]) } }

Invoked(path) == \E k \in 1..Len(calls) : calls[k].fn = path

\* C4 as stated: after a candidate failed the search goes on to the next
\* candidate, so a request that fails has tried every candidate.
\* Violated: the request fails on the first candidate's failure.
C4_FailsOnlyAfterEveryCandidate ==
    (pc = "done" /\ result.status = 502 /\ calls # <<>>) =>
        \A p \in DirectCandidates : Invoked(p)

\* C4 as amended: an error other than TypeError raised by an invoked callable
\* ends the request at once with the 502 response that carries it, and all
\* sender calls of a request are made on one callable: no second candidate
\* is invoked.
C4_FirstFailureEndsRequest ==
    /\ \A k \in 1..Len(calls) : IsSenderCall(calls[k]) => calls[k].fn = fn.path
    /\ \A k \in 1..Len(calls) :
         (calls[k].exc # NoExc /\ calls[k].exc.type # "TypeError") =>
            /\ k = Len(calls)
            /\ pc = "done"
            /\ result = Upstream(calls[k].exc)

\* a request failed on its first candidate's error while the client has a
\* second direct sender
C4_Witness ==
    /\ pc = "done"
    /\ Cardinality(DirectCandidates) >= 2
    /\ Len(calls) = 1
    /\ calls[1].exc = Exc("Exception", "quota exceeded")
    /\ result = Upstream(calls[1].exc)

-----------------------------------------------------------------------------
(* C5 *)

Last(s) == s[Len(s)]

\* the path the response should report for the sender call c
UsedPathOf(c) ==
    IF MakerCalls = <<>> THEN c.fn
    ELSE <<"client">> \o Tail(Last(MakerCalls).fn) \o <<"(...)">> \o Tail(c.fn)

\* C5: the response is a success iff a sender call returned; that call is
\* the last call of the request; `used` names the callable that returned.
C5_SuccessIffSenderReturned ==
    /\ \A k \in 1..Len(calls) :
         (IsSenderCall(calls[k]) /\ Returned(calls[k])) =>
            /\ k = Len(calls)
            /\ pc = "done"
            /\ result.status = 200
    /\ result.status = 200 =>
         /\ calls # <<>>
         /\ IsSenderCall(Last(calls))
         /\ Returned(Last(calls))
         /\ result.used = UsedPathOf(Last(calls))
         /\ result.to = to

\* a request succeeded through a sender of a sub-object of the conversation
C5_Witness ==
    /\ pc = "done"
    /\ result.status = 200
    /\ result.used = <<"client", "conversations", "create_conversation", "(...)",
                       "messages", "send">>
    /\ Last(calls).fn = <<"conv", "messages", "send">>

-----------------------------------------------------------------------------
(* C6 *)

\* C6: a client that exposes only conversations.create(number) serves a send
\* request: the response is a success whose used-path has a create segment
\* and a send segment.
\* Violated: `create` is not a name _find_conversation_maker looks for.
C6_ConversationsCreateSucceeds ==
    (pc = "done" /\ Acquired /\ lib = {Member("conversations", FALSE, {"create"})}) =>
        /\ result.status = 200
        /\ InSeq(result.used, "create")
        /\ InSeq(result.used, "send")

-----------------------------------------------------------------------------
(* C7 *)

\* the client has a public callable whose name contains a hint
HasHintedMethod ==
    \E m \in lib : /\ m.callable
                   /\ ~StartsWith(CharsOf(m.name), "_")
                   /\ HasHint(Lower(CharsOf(m.name)))

\* C7 as stated: when the client has a callable whose name contains a hint,
\* the request does not fail for lack of candidates.
\* Violated: a callable named sendSMS is not found.
C7_HintedCallableIsCandidate ==
    (pc = "done" /\ Acquired /\ HasHintedMethod) => result.detail # ErrNoCandidates

\* the direct sender names in the order the amended claim states
SpecDirectOrder ==
    <<"send_sms", "send_message", "send_text", "text", "send", "sms", "message">>

HasNamedSender == \E k \in 1..Len(SpecDirectOrder) : IsMethod(SpecDirectOrder[k])

FirstNamedSender ==
    SpecDirectOrder[CHOOSE k \in 1..Len(SpecDirectOrder) :
                        /\ IsMethod(SpecDirectOrder[k])
                        /\ \A j \in 1..(k - 1) : ~IsMethod(SpecDirectOrder[j])]

\* C7 as amended: when the client has a callable named exactly one of the
\* seven direct sender names, the request does not fail for lack of
\* candidates, and the callable it invokes is the first such name.
C7_NamedCallableIsCandidate ==
    (Acquired /\ pc # "discover" /\ HasNamedSender) =>
        /\ pc \in {"try_call", "done"}
        /\ fn.path = <<"client", FirstNamedSender>>
        /\ \A k \in 1..Len(calls) : calls[k].fn = fn.path
        /\ (pc = "done" => calls # <<>>)
        /\ result.detail # ErrNoCandidates

\* the client has `send` and `text`, and the request called `text`, which
\* comes first in the order
C7_Witness ==
    /\ pc = "done"
    /\ IsMethod("send") /\ IsMethod("text")
    /\ calls # <<>>
    /\ Last(calls).fn = <<"client", "text">>

-----------------------------------------------------------------------------
(* C8 *)

NoHintedMethod == ~HasHintedMethod

\* names that make a conversation
MakerLike == { MakerNames[k] : k \in 1..Len(MakerNames) } \cup {"create"}

\* the client has no conversation maker, on itself or on a sub-object
NoMaker ==
    \A m \in lib : /\ (m.callable => m.name \notin MakerLike)
                   /\ m.members \cap MakerLike = {}

\* C8: with no hinted method and no conversation maker, the request fails
\* with the no-candidates failure and no callable of the client is invoked.
C8_NoCandidatesNoInvocation ==
    (Acquired /\ NoHintedMethod /\ NoMaker) =>
        /\ calls = <<>>
        /\ pc \in {"discover", "done"}
        /\ (pc = "done" => result = Upstream(Exc("RuntimeError", ErrNoCandidates)))

\* a request on a client whose only method is `ping` failed for lack of
\* candidates
C8_Witness ==
    /\ pc = "done"
    /\ Acquired
    /\ lib = {Member("ping", TRUE, {})}
    /\ result.detail = ErrNoCandidates
    /\ calls = <<>>

-----------------------------------------------------------------------------
(* C9 *)

\* the callable rejects every shape of the repertoire
RejectsAll(f) == \A k \in 1..Len(SpecRepertoire) : ~Binds(f, SpecRepertoire[k])

\* C9: no (callable, shape) pair is called twice in a request; a callable
\* that rejects every shape is called with each of the 30 shapes once and the
\* request fails with the no-compatible-calling-convention error.
C9_EachShapeOnce ==
    /\ \A j, k \in 1..Len(calls) :
         j < k => ~(calls[j].fn = calls[k].fn /\ calls[j].shape = calls[k].shape)
    /\ (pc = "done" /\ TryCalls # <<>> /\ RejectsAll(fn)) =>
         /\ Shapes(TryCalls) = SpecRepertoire
         /\ Len(SpecRepertoire) = 30
         /\ \A k \in 1..Len(calls) : ShapeMismatch(calls[k]) \/ ~IsSenderCall(calls[k])
         /\ result = Upstream(Exc("RuntimeError", ErrNoConvention))

\* a conversation sender rejected the message-only call and all 30 shapes
C9_Witness ==
    /\ pc = "done"
    /\ send_name # NoName
    /\ RejectsAll(fn)
    /\ Len(SenderCalls) = 31
    /\ SenderCalls[1].shape = ShapeMsg
    /\ result.detail = ErrNoConvention

-----------------------------------------------------------------------------
(* C10 *)

\* the callable takes exactly one keyword-only argument, a message key
KwOnlyMsg(f) ==
    f.pos = <<>> /\ \E k \in 1..Len(SpecMsgKeys) : f.kwonly = {SpecMsgKeys[k]}

KeyIndex(f) == CHOOSE k \in 1..Len(SpecMsgKeys) : f.kwonly = {SpecMsgKeys[k]}

\* C10: a callable that takes only one keyword, a message key, is accepted
\* by the message-only call with that key and by no other call; every call
\* of steps 1 to 3 is a shape-mismatch; the request succeeds.
C10_KeywordOnlySucceedsAtStep4 ==
    KwOnlyMsg(fn) =>
        LET sc == SenderCalls
            t == TryCalls
            entered == { k \in 1..Len(sc) : sc[k].entered }
        IN  /\ \A k \in entered :
                 sc[k].shape = Shape(<<>>, { <<SpecMsgKeys[KeyIndex(fn)], "msg">> })
            /\ Cardinality(entered) <= 1
            /\ \A k \in 1..Len(t) : k <= 26 => ShapeMismatch(t[k])
            /\ (pc = "done" /\ fn.body = "ret") =>
                 /\ result.status = 200
                 /\ Len(t) = 26 + KeyIndex(fn)
                 /\ entered = {Len(sc)}

\* a direct sender taking only body= was called 29 times and succeeded
C10_Witness ==
    /\ pc = "done"
    /\ fn.pos = <<>> /\ fn.kwonly = {"body"}
    /\ send_name = NoName
    /\ Len(calls) = 29
    /\ Last(calls).shape = Shape(<<>>, { <<"body", "msg">> })
    /\ result.status = 200

-----------------------------------------------------------------------------
(* C11 *)

\* index in `calls` of the first call made on a sender, 0 if none
FirstSenderCall ==
    IF \E k \in 1..Len(calls) : IsSenderCall(calls[k])
    THEN CHOOSE k \in 1..Len(calls) :
             IsSenderCall(calls[k]) /\ \A j \in 1..(k - 1) : ~IsSenderCall(calls[j])
    ELSE 0

\* C11 as stated: the first call shape attempted on every invoked sender,
\* direct or bound to a conversation, is positional (destination, message).
\* Violated: a conversation sender is first called with (message) alone.
C11_FirstShapeIsDestinationMessage ==
    FirstSenderCall # 0 => calls[FirstSenderCall].shape = Shape(<<"to", "msg">>, {})

\* C11 as amended: a direct sender is first called with (destination,
\* message); a conversation sender is first called with (message) alone, and
\* the call after that, if any, is (destination, message).
C11_FirstShapeByFlow ==
    LET k == FirstSenderCall
    IN  k # 0 =>
          IF MakerCalls = <<>>
          THEN calls[k].shape = Shape(<<"to", "msg">>, {})
          ELSE /\ calls[k].shape = Shape(<<"msg">>, {})
               /\ (k < Len(calls) => calls[k + 1].shape = Shape(<<"to", "msg">>, {}))

\* a conversation sender was called with (message), raised TypeError, and was
\* then called with (destination, message), which returned
C11_Witness ==
    /\ pc = "done"
    /\ send_name # NoName
    /\ Len(SenderCalls) = 2
    /\ SenderCalls[1].shape = Shape(<<"msg">>, {})
    /\ SenderCalls[2].shape = Shape(<<"to", "msg">>, {})
    /\ result.status = 200

-----------------------------------------------------------------------------
(* C12 *)

\* the dotted path "client.<name>" as a string
DirectPathChars(n) == <<"c", "l", "i", "e", "n", "t", ".">> \o CharsOf(n)

Dots(s) == Cardinality({ k \in 1..Len(s) : s[k] = "." })

\* the hint terms and the high-confidence terms of the ranking
RankHints == { <<"s","e","n","d">>, <<"t","e","x","t">>, <<"s","m","s">>,
               <<"m","e","s","s","a","g","e">> }
HighConfidence == { <<"s","e","n","d","_","s","m","s">>,
                    <<"s","e","n","d","_","m","e","s","s","a","g","e">>,
                    <<"m","e","s","s","a","g","e","s",".","s","e","n","d">>,
                    <<"t","e","x","t">> }

\* the score of a path: +1 for a direct member (exactly one dot), +2 per hint
\* term in the path, +3 if the path contains a high-confidence term
Score(path) ==
    (IF Dots(path) = 1 THEN 1 ELSE 0)
    + 2 * Cardinality({ h \in RankHints : Contains(Lower(path), h) })
    + (IF \E h \in HighConfidence : Contains(Lower(path), h) THEN 3 ELSE 0)

\* the direct sender names of the claim that are callable members
PresentSenders == { n \in Range(SpecDirectOrder) : IsMethod(n) }

\* C12: the sender tried first has the maximal score among the direct sender
\* names present; send_sms, when present, is the one tried; with a direct
\* sender present no maker and no conversation sender is called.
C12_FirstTriedHasMaximalScore ==
    (Acquired /\ pc # "discover" /\ PresentSenders # {}) =>
        /\ name # NoName
        /\ name[1] \in PresentSenders
        /\ \A n \in PresentSenders :
             Score(DirectPathChars(name[1])) >= Score(DirectPathChars(n))
        /\ (IsMethod("send_sms") => name = <<"send_sms">>)
        /\ \A k \in 1..Len(calls) : calls[k].fn = <<"client", name[1]>>

\* the client has send and send_sms, and send_sms was the one called
C12_Witness ==
    /\ pc = "done"
    /\ IsMethod("send") /\ IsMethod("send_sms")
    /\ calls # <<>>
    /\ Last(calls).fn = <<"client", "send_sms">>
    /\ Score(DirectPathChars("send_sms")) > Score(DirectPathChars("send"))

-----------------------------------------------------------------------------
(* C13 *)

\* the request passed validation and get_client raised
AcquisitionFailed == pc = "done" /\ result.status # 400 /\ ~Acquired

\* C13 as stated: a send request whose client acquisition fails never ends in
\* the failure category (status) of a request whose sender invocation failed.
\* Violated: both end with status 502.
C13_AcquisitionFailureIsDistinct ==
    AcquisitionFailed => result.status # Upstream(NoExc).status

-----------------------------------------------------------------------------
(* C14 *)

\* C14 as stated: an error raised by the body of a callable during a send
\* request is surfaced as the 502 failure whose detail holds the text of that
\* error (as the detail itself or among the quoted attempts), and the text of
\* a shape-mismatch is never the detail.
\* Violated: a TypeError raised by the body is swallowed as a shape-mismatch.
C14_ErrorSurfacedWithItsText ==
    pc = "done" =>
        \A k \in 1..Len(calls) :
            /\ BodyRaised(calls[k]) =>
                 /\ result.status = 502
                 /\ \/ result.detail = calls[k].exc.msg
                    \/ calls[k].exc.msg \in Range(result.tried)
            /\ ShapeMismatch(calls[k]) => result.detail # calls[k].exc.msg

-----------------------------------------------------------------------------
(* C17 *)

\* the steps the handler can still take before its response
Rank ==
    CASE pc = "acquire"   -> NShapes + Len(maker_keys) + 4
      [] pc = "discover"  -> NShapes + Len(maker_keys) + 3
      [] pc = "maker"     -> NShapes + Len(maker_keys) + 2 - mi
      [] pc = "conv_send" -> NShapes + 1
      [] pc = "try_call"  -> NShapes + 1 - i
      [] OTHER            -> 0

\* the handler is between the validation of the destination and its response
Running == pc \in {"acquire", "discover", "maker", "conv_send", "try_call"}

\* C17: every send request ends with exactly one outcome after a bounded
\* number of invocations: the maker is called at most 6 times and a sender at
\* most 31 times; a running handler can always take a step, every step of a
\* running handler brings it closer to its response, and a finished request
\* has one response.
C17_BoundedInvocations ==
    /\ [](/\ Len(MakerCalls) <= 6
          /\ Len(SenderCalls) <= 31
          /\ Running => ENABLED (Acquire \/ Discover \/ TryCall \/ MakerCall \/ ConvSend)
          /\ Running => result = NoResult
          /\ pc = "done" => result.status \in {200, 400, 502})
    /\ [][Running => Rank' < Rank]_vars

\* the maker was called 6 times and the sender 31 times
C17_Witness ==
    /\ pc = "done"
    /\ Len(MakerCalls) = 6
    /\ Len(SenderCalls) = 31

-----------------------------------------------------------------------------
(* C18 *)

\* the maker calls of the request that returned
ReturnedMakerCalls == { k \in 1..Len(calls) : ~IsSenderCall(calls[k]) /\ Returned(calls[k]) }

\* C18 as stated: at most one maker call returns; after a maker call has
\* returned no further maker call is made, whatever it returned.
\* Violated: maker(to) returning None is followed by maker(to=to).
C18_MakerReturnsAtMostOnce ==
    /\ Cardinality(ReturnedMakerCalls) <= 1
    /\ \A k \in ReturnedMakerCalls : \A j \in (k + 1)..Len(calls) : IsSenderCall(calls[j])

\* C18 as amended: at most one maker call returns a conversation and at most
\* two return; after a maker call that returned a conversation, and after a
\* keyword maker call that returned anything, no further maker call is made;
\* a returned call that is followed by another maker call is the positional
\* maker(to) that returned None.
C18_NoMakerCallAfterConversation ==
    /\ Cardinality(ReturnedMakerCalls) <= (IF maker.body = "conv" THEN 1 ELSE 2)
    /\ \A k \in ReturnedMakerCalls :
         (maker.body = "conv" \/ calls[k].shape # ShapeTo) =>
             \A j \in (k + 1)..Len(calls) : IsSenderCall(calls[j])

\* the maker returned a conversation and its sender was called after it
C18_Witness ==
    /\ pc = "done"
    /\ maker.body = "conv"
    /\ Cardinality(ReturnedMakerCalls) = 1
    /\ SenderCalls # <<>>

-----------------------------------------------------------------------------
(* C19 *)

\* the number of digits of a destination as the request carries it
DigitCount(r) == Cardinality({ k \in 1..Len(r) : r[k] \in Digits })

\* the destination is neither exactly 10 digits nor '+'-prefixed with at
\* least 8 digits (blanks around it do not count)
Rejected(r) ==
    /\ DigitCount(r) # 10
    /\ ~(\E k \in 1..Len(r) :
            /\ r[k] = "+"
            /\ \A j \in 1..(k - 1) : r[j] = " "
            /\ DigitCount(r) >= 8)

\* C19: a send request whose destination is rejected fails with 400 at once:
\* the client handle is not acquired, the cache is untouched and no callable
\* is invoked; the 400 is the response until it is sent, never a 502.
C19_RejectedBeforeAcquisition ==
    [][/\ \A r \in RawNumbers :
            (SendRequest(r) /\ Rejected(r)) =>
                /\ result'.status = 400
                /\ pc' = "done"
                /\ calls' = <<>>
                /\ client' = NoClient
                /\ UNCHANGED cache
       /\ result.status = 400 => (Respond /\ client = NoClient /\ calls = <<>>)
      ]_vars

\* the eleven-digit destination without '+' has been rejected
C19_Witness ==
    /\ pc = "done"
    /\ result.status = 400
    /\ Rejected(raw)
    /\ DigitCount(raw) = 11

-----------------------------------------------------------------------------
(* C15 *)

\* C15 as stated: the diagnostic operation invokes no callable of the client
\* handle and leaves the state of the handle unchanged, whether the cache is
\* empty, fresh or expired.
\* Violated: with the cache empty or expired its get_client logs the new
\* client in, or sets sid_cookie on it.
C15_DebugIsReadOnly ==
    pc = "debug_done" => dbg.ops \cap {"login", "setattr"} = {}

-----------------------------------------------------------------------------
(* C16 *)

\* the step is one call of get_client, made by /send or by /debug
GetClientStep ==
    \/ pc = "acquire" /\ pc' # "acquire"
    \/ pc = "idle" /\ pc' = "debug_done"

\* what that call returned, NoClient if it raised
GetClientValue == IF pc = "acquire" THEN client' ELSE dbg'.client

\* C16 as stated: get_client returns the cached handle, constructing nothing,
\* whenever now - created_at does not exceed the TTL; otherwise a handle it
\* returns is new and created_at is the time of its construction.
\* Violated: at now - created_at = TTL the client is constructed anew.
C16_ReusedUpToTTL ==
    [][GetClientStep =>
         IF CLIENT # NoClient /\ now - CLIENT_TS <= TTL
         THEN /\ UNCHANGED cache
              /\ GetClientValue \in {CLIENT, NoClient}
         ELSE GetClientValue # NoClient =>
                /\ GetClientValue = Handle(now)
                /\ cache' = <<Handle(now), now>>
      ]_vars

\* C16 as amended: get_client returns the cached handle, constructing nothing,
\* whenever the cache holds a handle and now - created_at is less than the
\* TTL; otherwise (cache empty, or now - created_at at least the TTL) a handle
\* it returns is new, is cached, and created_at is the time of its
\* construction, and if it raises the cache keeps what it held.
C16_ReusedBelowTTL ==
    [][GetClientStep =>
         IF CLIENT # NoClient /\ now - CLIENT_TS < TTL
         THEN /\ UNCHANGED cache
              /\ GetClientValue \in {CLIENT, NoClient}
         ELSE IF GetClientValue # NoClient
         THEN /\ GetClientValue = Handle(now)
              /\ cache' = <<Handle(now), now>>
         ELSE UNCHANGED cache
      ]_vars

\* a cached handle of exactly the age TTL was replaced by a new one
C16_Witness ==
    /\ pc = "debug_done"
    /\ dbg.before # NoClient
    /\ now - dbg.before.born = TTL
    /\ dbg.client = Handle(now)
    /\ cache = <<Handle(now), now>>

-----------------------------------------------------------------------------
(* C20 *)

\* C20: a get_client call that raises leaves the cache as it was, and the
\* cached handle and its timestamp are written together: the timestamp of a
\* cached handle is the time that handle was constructed and logged in.
C20_RaiseLeavesCache ==
    /\ [](CLIENT # NoClient => CLIENT_TS = CLIENT.born)
    /\ [][(GetClientStep /\ GetClientValue = NoClient) => UNCHANGED cache]_vars

\* get_client found an expired handle, constructed a client whose login
\* raised, and the cache still holds the expired handle
C20_Witness ==
    /\ pc = "debug_done"
    /\ dbg.status = 500
    /\ "login" \in dbg.ops
    /\ dbg.before # NoClient
    /\ cache = <<dbg.before, dbg.before.born>>

====
